---- MODULE Spec2Model ----
(***************************************************************************)
(* Model of fontra-compile's output actions:                               *)
(*   compile_fontmake_action.py  CompileFontMakeAction, addInstances,      *)
(*                               addGlyphOrder, addMinimalGaspTable        *)
(*   compile_varc_action.py      FontraCompileAction                       *)
(*                                                                         *)
(* Python str values whose characters matter (glyph names, path names) are *)
(* sequences of code points; None is the string "None".                    *)
(***************************************************************************)
EXTENDS FiniteSets, Integers, Sequences, TLC

VARIABLES
    \* ---- CompileFontMakeAction fields (compile_fontmake_action.py lines 25-30)
    destination, setOverlapSimpleFlag, addMinimalGaspTableOpt, ufoTempDir, fmInput,
    \* ---- FontraCompileAction fields (compile_varc_action.py lines 16-19)
    varcDestination, varcInput,
    \* ---- callers: open connect scopes per action, how the last process call ended
    fmDepth, varcDepth, fmOutcome, varcOutcome, varcBuilder,
    \* ---- CompileFontMakeAction.process: position and locals, the stages run and
    \* the compiler arguments of the most recent call
    pc, isVariable, continueOnError, sourcePath, dsBackendFlag, stages, failedStage,
    arguments,
    \* ---- file system: the temporary directory and the intermediate project
    tmpDir, projectIn, copyInfo, dsDoc, glyphSet, lib, fontInfo,
    \* ---- bookkeeping of direct calls of the module-level functions
    dsDoc0, dsWrites, lib0, libWrites, calls, firstLib

fieldVars == <<destination, setOverlapSimpleFlag, addMinimalGaspTableOpt, ufoTempDir,
               varcDestination>>
fmScopeVars == <<fmInput, fmDepth>>
varcVars == <<varcInput, varcDepth, varcOutcome, varcBuilder>>
procVars == <<pc, isVariable, continueOnError, sourcePath, dsBackendFlag, stages,
              failedStage, arguments, fmOutcome>>
fsVars == <<tmpDir, projectIn, copyInfo>>
projVars == <<dsDoc, glyphSet, lib, fontInfo>>
histVars == <<dsDoc0, dsWrites, lib0, libWrites, calls, firstLib>>
vars == <<fieldVars, fmScopeVars, varcVars, procVars, fsVars, projVars, histVars>>

None == "None"

\* ------------------------------------------------------------------ bounds
MaxGlyphs == 4
MaxAxes == 2
MaxCalls == 2
MaxDepth == 2

\* ------------------------------------------------------------------ strings
\* Python's str < str: lexicographic on code points, a proper prefix is smaller.
RECURSIVE StrLess(_, _)
StrLess(a, b) ==
    IF b = <<>> THEN FALSE
    ELSE IF a = <<>> THEN TRUE
    ELSE IF Head(a) # Head(b) THEN Head(a) < Head(b)
    ELSE StrLess(Tail(a), Tail(b))

\* str.lower() on ASCII: "A".."Z" (65..90) map to "a".."z".
LowerChar(c) == IF c >= 65 /\ c <= 90 THEN c + 32 ELSE c
Lower(s) == [i \in 1..Len(s) |-> LowerChar(s[i])]

\* str.rfind("."), 0-based, -1 when there is no dot (46).
RECURSIVE RFindDot(_, _)
RFindDot(s, i) ==
    IF i = 0 THEN -1
    ELSE IF s[i] = 46 THEN i - 1
    ELSE RFindDot(s, i - 1)

\* pathlib's PurePath.suffix of a file name: from the last dot, unless the dot
\* is the first or the last character.
PathSuffix(name) ==
    LET i == RFindDot(name, Len(name))
    IN  IF 0 < i /\ i < Len(name) - 1 THEN SubSeq(name, i + 1, Len(name)) ELSE <<>>

\* ------------------------------------------------------------------ glyph order
GN_notdef == <<46, 110, 111, 116, 100, 101, 102>>
GN_null == <<46, 110, 117, 108, 108>>
GN_CR == <<67, 82>>
GN_space == <<115, 112, 97, 99, 101>>
GN_A == <<65>>
GN_B == <<66>>
GN_C == <<67>>

\* _firstFourGIDS: glyph name -> gid for the four fixed names.
FirstFourNames == <<GN_notdef, GN_null, GN_CR, GN_space>>
firstFourGIDS == [gn \in {FirstFourNames[i] : i \in 1..Len(FirstFourNames)} |->
                    (CHOOSE i \in 1..Len(FirstFourNames) : FirstFourNames[i] = gn) - 1]
nextGID == Len(FirstFourNames)

\* The variant that forgets the name as the second key component.
GlyphSortKeyNoName(glyphName) ==
    <<IF glyphName \in DOMAIN firstFourGIDS THEN firstFourGIDS[glyphName] ELSE nextGID,
      <<>>>>

glyphSortKeyFunc(glyphName) ==
    <<IF glyphName \in DOMAIN firstFourGIDS THEN firstFourGIDS[glyphName] ELSE nextGID,
      glyphName>>

\* tuple comparison of two keys (int, str)
KeyLess(k1, k2) == k1[1] < k2[1] \/ (k1[1] = k2[1] /\ StrLess(k1[2], k2[2]))

\* sorted(seq, key=...): a stable sort, here by insertion from the left; an
\* element goes after every element whose key is not greater than its own.
RECURSIVE InsertByKey(_, _)
InsertByKey(sortedSeq, x) ==
    IF sortedSeq = <<>> THEN <<x>>
    ELSE IF KeyLess(glyphSortKeyFunc(x), glyphSortKeyFunc(Head(sortedSeq)))
         THEN <<x>> \o sortedSeq
         ELSE <<Head(sortedSeq)>> \o InsertByKey(Tail(sortedSeq), x)

RECURSIVE SortedGlyphs(_)
SortedGlyphs(names) ==
    IF names = <<>> THEN <<>>
    ELSE InsertByKey(SortedGlyphs(SubSeq(names, 1, Len(names) - 1)), names[Len(names)])

GLYPH_ORDER_KEY == "public.glyphOrder"
EmptyDict == [k \in {} |-> <<>>]

\* The variant that tests the stored order's truth value, not the key's presence.
AddGlyphOrderLibTruthy(libv, names) ==
    IF GLYPH_ORDER_KEY \notin DOMAIN libv \/ libv[GLYPH_ORDER_KEY] = <<>>
    THEN (GLYPH_ORDER_KEY :> SortedGlyphs(names)) @@ libv
    ELSE libv

\* addGlyphOrder on the default source: the lib (a dict) as stored afterwards ...
AddGlyphOrderLib(libv, names) ==
    IF GLYPH_ORDER_KEY \notin DOMAIN libv
    THEN (GLYPH_ORDER_KEY :> SortedGlyphs(names)) @@ libv
    ELSE libv

\* ... and whether ufo.writeLib(lib) is called.
AddGlyphOrderWrites(libv) == GLYPH_ORDER_KEY \notin DOMAIN libv

\* ------------------------------------------------------------------ instances
\* An axis is [tag, name, axisLabels, map]; a label is [name, elidable, userValue];
\* map is a sequence of <<user, design>> pairs.
SortOrderTags == <<"wght", "wdth", "ital", "slnt">>
SortOrderDefault == 100
SortOrderGet(tag) ==
    IF \E i \in 1..Len(SortOrderTags) : SortOrderTags[i] = tag
    THEN (CHOOSE i \in 1..Len(SortOrderTags) : SortOrderTags[i] = tag) - 1
    ELSE SortOrderDefault

\* sorted(dsDoc.axes, key=...): stable
RECURSIVE InsertAxis(_, _)
InsertAxis(sortedSeq, axis) ==
    IF sortedSeq = <<>> THEN <<axis>>
    ELSE IF SortOrderGet(axis.tag) < SortOrderGet(Head(sortedSeq).tag)
         THEN <<axis>> \o sortedSeq
         ELSE <<Head(sortedSeq)>> \o InsertAxis(Tail(sortedSeq), axis)

RECURSIVE SortedAxes(_)
SortedAxes(axes) ==
    IF axes = <<>> THEN <<>>
    ELSE InsertAxis(SortedAxes(SubSeq(axes, 1, Len(axes) - 1)), axes[Len(axes)])

\* fontTools' piecewiseLinearMap behind AxisDescriptor.map_forward
MapKeys(axis) == {axis.map[i][1] : i \in 1..Len(axis.map)}
MapGet(axis, k) == axis.map[CHOOSE i \in 1..Len(axis.map) :
                        axis.map[i][1] = k /\ \A j \in (i+1)..Len(axis.map) : axis.map[j][1] # k][2]
SetMin(S) == CHOOSE x \in S : \A y \in S : x <= y
SetMax(S) == CHOOSE x \in S : \A y \in S : x >= y
MapForward(axis, v) ==
    LET keys == MapKeys(axis)
    IN  IF keys = {} THEN v
        ELSE IF v \in keys THEN MapGet(axis, v)
        ELSE IF v < SetMin(keys) THEN v + MapGet(axis, SetMin(keys)) - SetMin(keys)
        ELSE IF v > SetMax(keys) THEN v + MapGet(axis, SetMax(keys)) - SetMax(keys)
        ELSE LET a == SetMax({k \in keys : k < v})
                 b == SetMin({k \in keys : k > v})
                 va == MapGet(axis, a)
                 vb == MapGet(axis, b)
             IN  va + ((vb - va) * (v - a)) \div (b - a)

\* The variant that lists every axis, labelled or not (an axis without labels
\* then contributes an empty factor).
AxisLabelsAllAxes(axes) ==
    [i \in 1..Len(axes) |->
        [j \in 1..Len(axes[i].axisLabels) |->
            <<axes[i].name,
              IF axes[i].axisLabels[j].elidable THEN None ELSE axes[i].axisLabels[j].name,
              axes[i].axisLabels[j].userValue>>]]

\* axisLabels: per (sorted) axis that has labels, its (name, valueLabel, value) items
RECURSIVE AxisLabels(_)
AxisLabels(axes) ==
    IF axes = <<>> THEN <<>>
    ELSE LET axis == Head(axes)
             items == [j \in 1..Len(axis.axisLabels) |->
                         <<axis.name,
                           IF axis.axisLabels[j].elidable THEN None
                           ELSE axis.axisLabels[j].name,
                           axis.axisLabels[j].userValue>>]
         IN  (IF axis.axisLabels # <<>> THEN <<items>> ELSE <<>>) \o AxisLabels(Tail(axes))

\* itertools.product(*lists): the last list varies fastest
RECURSIVE ConcatAll(_)
ConcatAll(seqs) == IF seqs = <<>> THEN <<>> ELSE Head(seqs) \o ConcatAll(Tail(seqs))

RECURSIVE Product(_)
Product(lists) ==
    IF lists = <<>> THEN << <<>> >>
    ELSE LET rest == Product(Tail(lists))
             first == Head(lists)
         IN  ConcatAll([i \in 1..Len(first) |->
                          [j \in 1..Len(rest) |-> <<first[i]>> \o rest[j]]])

\* {name: value for (name, valueLabel, value) in items}: a later item wins
LocationOf(items) ==
    [n \in {items[i][1] : i \in 1..Len(items)} |->
        items[CHOOSE i \in 1..Len(items) :
                 items[i][1] = n /\ \A j \in (i+1)..Len(items) : items[j][1] # n][3]]

\* axesByName = {axis.name: axis for axis in dsDoc.axes}
AxesByName(axes) ==
    [n \in {axes[i].name : i \in 1..Len(axes)} |->
        axes[CHOOSE i \in 1..Len(axes) :
                axes[i].name = n /\ \A j \in (i+1)..Len(axes) : axes[j].name # n]]

mapLocationForward(location, axes) ==
    [name \in DOMAIN location |-> MapForward(axes[name], location[name])]

\* [valueLabel for (name, valueLabel, value) in items if valueLabel]
RECURSIVE NameParts(_)
NameParts(items) ==
    IF items = <<>> THEN <<>>
    ELSE (IF Head(items)[2] \notin {None, ""} THEN <<Head(items)[2]>> ELSE <<>>)
         \o NameParts(Tail(items))

\* " ".join(parts)
RECURSIVE Join(_)
Join(parts) ==
    IF parts = <<>> THEN ""
    ELSE IF Len(parts) = 1 THEN parts[1]
    ELSE parts[1] \o " " \o Join(Tail(parts))

\* dsDoc.elidedFallbackName or "Regular"
ElidedFallbackName(doc) ==
    IF doc.elidedFallbackName \in {None, ""} THEN "Regular" ELSE doc.elidedFallbackName

FAMILY_NAME == "Testing"

InstanceFor(doc, items) ==
    LET nameParts == NameParts(items)
    IN  [familyName |-> FAMILY_NAME,
         styleName |-> Join(IF nameParts = <<>> THEN <<ElidedFallbackName(doc)>>
                            ELSE nameParts),
         location |-> mapLocationForward(LocationOf(items), AxesByName(doc.axes))]

\* The synthesized document: one instance per combination of axis labels.
SynthesizedDoc(doc) ==
    LET combos == Product(AxisLabels(SortedAxes(doc.axes)))
    IN  [doc EXCEPT
           !.elidedFallbackName = ElidedFallbackName(doc),
           !.instances = [i \in 1..Len(combos) |-> InstanceFor(doc, combos[i])]]

\* The variant that defaults the elided-fallback name and writes before it looks
\* at the declared instances.
AddInstancesDocEarlyWrite(doc) ==
    IF doc.instances # <<>>
    THEN [doc EXCEPT !.elidedFallbackName = ElidedFallbackName(doc)]
    ELSE SynthesizedDoc(doc)

\* The document addInstances leaves on disk. A document is
\* [axes, instances, elidedFallbackName].
AddInstancesDoc(doc) ==
    IF doc.instances # <<>> THEN doc ELSE SynthesizedDoc(doc)

\* Whether addInstances reaches dsDoc.write(designspacePath).
AddInstancesWrites(doc) == doc.instances = <<>>

\* ------------------------------------------------------------------ gasp
GASP_KEY == "openTypeGaspRangeRecords"
\* 0xFFFF
RangeMaxPPEM == 15 * 4096 + 15 * 256 + 15 * 16 + 15
MinimalGaspRecords ==
    <<[rangeMaxPPEM |-> RangeMaxPPEM, rangeGaspBehavior |-> <<0, 1, 2, 3>>]>>

\* The variant that appends the record to the records already stored.
AddMinimalGaspTableAppend(info) ==
    (GASP_KEY :> ((IF GASP_KEY \in DOMAIN info THEN info[GASP_KEY] ELSE <<>>)
                  \o MinimalGaspRecords)) @@ info

\* addMinimalGaspTable: the default source's font info (a dict of the attributes
\* set on UFOFontInfo) as written back.
AddMinimalGaspTableInfo(info) == (GASP_KEY :> MinimalGaspRecords) @@ info

\* ------------------------------------------------------------------ input data
Label(name, elidable, userValue) ==
    [name |-> name, elidable |-> elidable, userValue |-> userValue]

AxWght == [tag |-> "wght", name |-> "Weight",
           axisLabels |-> <<Label("Regular", TRUE, 400), Label("Bold", FALSE, 700)>>,
           map |-> <<<<400, 80>>, <<700, 140>>>>]
AxWdth == [tag |-> "wdth", name |-> "Width",
           axisLabels |-> <<Label("Condensed", FALSE, 75)>>, map |-> <<>>]
AxItal == [tag |-> "ital", name |-> "Italic",
           axisLabels |-> <<Label("Roman", TRUE, 0), Label("Italic", FALSE, 1)>>,
           map |-> <<>>]
AxOpsz == [tag |-> "opsz", name |-> "Optical Size", axisLabels |-> <<>>,
           map |-> <<<<8, 0>>, <<12, 100>>>>]
AxGrad == [tag |-> "GRAD", name |-> "Grade",
           axisLabels |-> <<Label("Low", FALSE, -50), Label("Normal", TRUE, 0),
                            Label("High", FALSE, 25)>>,
           map |-> <<<<-50, -100>>, <<0, 0>>, <<50, 200>>>>]
AxisPool == {AxWght, AxWdth, AxItal, AxOpsz, AxGrad}

\* the sequences without repetition over S, up to length n
DistinctSeqs(S, n) ==
    {q \in UNION {[1..k -> S] : k \in 0..n} :
        \A i, j \in 1..Len(q) : i # j => q[i] # q[j]}

DeclaredInstance ==
    [familyName |-> "Family", styleName |-> "Declared", location |-> [n \in {"Weight"} |-> 100]]

DocInputs ==
    {[axes |-> ax, instances |-> ins, elidedFallbackName |-> e] :
        ax \in DistinctSeqs(AxisPool, MaxAxes),
        ins \in {<<>>, <<DeclaredInstance>>},
        e \in {None, "", "Text"}}

GlyphPool == {GN_notdef, GN_null, GN_CR, GN_space, GN_A, GN_B, GN_C}

LibInputs == {EmptyDict, GLYPH_ORDER_KEY :> <<>>, GLYPH_ORDER_KEY :> <<GN_B, GN_A>>}

NoDoc == [axes |-> <<>>, instances |-> <<>>, elidedFallbackName |-> None]
NoCopy == [overlapSimple |-> FALSE, filter |-> None]
NoPath == [dir |-> "none", name |-> <<>>]
NoBuilder == [reader |-> None, buildCFF2 |-> FALSE, subroutinize |-> FALSE,
              useExtendedGvar |-> FALSE]

\* ------------------------------------------------------------------ direct calls
\* The state of the two action objects right after construction, nothing attached.
ActionsConstructed ==
    /\ fmInput = None /\ fmDepth = 0 /\ fmOutcome = "none"
    /\ varcInput = None /\ varcDepth = 0 /\ varcOutcome = "none" /\ varcBuilder = NoBuilder
    /\ pc = "idle" /\ isVariable = FALSE /\ continueOnError = FALSE
    /\ sourcePath = NoPath /\ dsBackendFlag = FALSE /\ stages = <<>>
    /\ failedStage = None /\ arguments = <<>>
    /\ tmpDir = "absent" /\ copyInfo = NoCopy

DefaultFields ==
    /\ destination = <<>> /\ setOverlapSimpleFlag = FALSE
    /\ addMinimalGaspTableOpt = FALSE /\ ufoTempDir = None /\ varcDestination = <<>>

\* addInstances(designspacePath) called on a designspace document on disk
InitInstances ==
    /\ ActionsConstructed /\ DefaultFields
    /\ projectIn = "pinned"
    /\ dsDoc \in DocInputs /\ dsDoc0 = dsDoc /\ dsWrites = 0
    /\ glyphSet = <<>> /\ lib = EmptyDict /\ fontInfo = EmptyDict
    /\ lib0 = EmptyDict /\ libWrites = 0 /\ calls = 0 /\ firstLib = EmptyDict

CallAddInstances ==
    /\ calls < MaxCalls
    /\ dsDoc' = AddInstancesDoc(dsDoc)
    /\ dsWrites' = dsWrites + (IF AddInstancesWrites(dsDoc) THEN 1 ELSE 0)
    /\ calls' = calls + 1
    /\ UNCHANGED <<fieldVars, fmScopeVars, varcVars, procVars, fsVars, glyphSet, lib,
                   fontInfo, dsDoc0, lib0, libWrites, firstLib>>

SpecInstances == InitInstances /\ [][CallAddInstances]_vars

\* addGlyphOrder(designspacePath) called on a project whose default source has
\* the glyphs glyphSet (in the order of its contents) and the lib `lib`
InitGlyphOrder ==
    /\ ActionsConstructed /\ DefaultFields
    /\ projectIn = "pinned"
    /\ dsDoc = NoDoc /\ dsDoc0 = NoDoc /\ dsWrites = 0
    /\ glyphSet \in DistinctSeqs(GlyphPool, MaxGlyphs)
    /\ lib \in LibInputs /\ lib0 = lib
    /\ fontInfo = EmptyDict
    /\ libWrites = 0 /\ calls = 0 /\ firstLib = EmptyDict

CallAddGlyphOrder ==
    /\ calls < MaxCalls
    /\ lib' = AddGlyphOrderLib(lib, glyphSet)
    /\ libWrites' = libWrites + (IF AddGlyphOrderWrites(lib) THEN 1 ELSE 0)
    /\ calls' = calls + 1
    /\ firstLib' = IF calls = 0 THEN lib' ELSE firstLib
    /\ UNCHANGED <<fieldVars, fmScopeVars, varcVars, procVars, fsVars, dsDoc, glyphSet,
                   fontInfo, dsDoc0, dsWrites, lib0>>

SpecGlyphOrder == InitGlyphOrder /\ [][CallAddGlyphOrder]_vars

\* ------------------------------------------------------------------ claims on addInstances
RECURSIVE LabelProduct(_)
LabelProduct(axes) ==
    IF axes = <<>> THEN 1
    ELSE (IF Len(Head(axes).axisLabels) = 0 THEN 1 ELSE Len(Head(axes).axisLabels))
         * LabelProduct(Tail(axes))

AxisNames(axes) == {axes[i].name : i \in 1..Len(axes)}
SynthesizedHere == calls >= 1 /\ dsDoc0.instances = <<>>

\* C2: run on a designspace with zero declared instances, addInstances persists
\* as many instances as the product over all axes of the axis's number of labels
\* (1 for an axis without labels); when no axis has a label there is exactly one
\* instance, and its style name is the elided-fallback name.
C2_InstanceCount ==
    SynthesizedHere =>
        /\ dsWrites = 1
        /\ Len(dsDoc.instances) = LabelProduct(dsDoc0.axes)
        /\ (\A i \in 1..Len(dsDoc0.axes) : dsDoc0.axes[i].axisLabels = <<>>) =>
              /\ Len(dsDoc.instances) = 1
              /\ dsDoc.instances[1].styleName =
                    (IF dsDoc0.elidedFallbackName \in {None, ""} THEN "Regular"
                     ELSE dsDoc0.elidedFallbackName)
              /\ dsDoc.instances[1].styleName = dsDoc.elidedFallbackName

C2_Witness ==
    /\ SynthesizedHere
    /\ dsDoc0.axes = <<AxOpsz, AxGrad>>
    /\ Len(dsDoc.instances) = 3

\* C3: every instance addInstances synthesizes has a location with a value for
\* every axis of the document, the axes without labels included.
C3_FullLocations ==
    SynthesizedHere =>
        \A i \in 1..Len(dsDoc.instances) :
            DOMAIN dsDoc.instances[i].location = AxisNames(dsDoc.axes)

\* C4: on a designspace that already declares an instance addInstances changes
\* nothing of the persisted document and writes nothing back.
C4_NoOpWithInstances ==
    (calls >= 1 /\ dsDoc0.instances # <<>>) => (dsDoc = dsDoc0 /\ dsWrites = 0)

C4_Witness ==
    /\ calls >= 1
    /\ dsDoc0.instances = <<DeclaredInstance>>
    /\ dsDoc0.elidedFallbackName = None
    /\ dsDoc0.axes = <<AxItal, AxWght>>

\* ------------------------------------------------------------------ claims on addGlyphOrder
IsFirstFour(gn) == gn \in {GN_notdef, GN_null, GN_CR, GN_space}
FirstFourRank(gn) ==
    IF gn = GN_notdef THEN 0 ELSE IF gn = GN_null THEN 1 ELSE IF gn = GN_CR THEN 2 ELSE 3
ComputedHere == calls >= 1 /\ GLYPH_ORDER_KEY \notin DOMAIN lib0

\* C5: without a stored order, the order addGlyphOrder writes is a permutation of
\* the default source's glyph names in which the present ones of ".notdef",
\* ".null", "CR", "space" come first, in that order, and the other names follow
\* in strictly ascending order; {A, space, .notdef, B} gives
\* [.notdef, space, A, B] whatever the order the names are read in.
C5_GlyphOrder ==
    ComputedHere =>
        /\ libWrites = 1
        /\ GLYPH_ORDER_KEY \in DOMAIN lib
        /\ LET order == lib[GLYPH_ORDER_KEY]
               n == Len(order)
           IN  /\ n = Len(glyphSet)
               /\ {order[i] : i \in 1..n} = {glyphSet[i] : i \in 1..Len(glyphSet)}
               /\ \A i, j \in 1..n : i # j => order[i] # order[j]
               /\ \A i, j \in 1..n :
                     i < j =>
                        /\ IsFirstFour(order[j]) =>
                              /\ IsFirstFour(order[i])
                              /\ FirstFourRank(order[i]) < FirstFourRank(order[j])
                        /\ (~IsFirstFour(order[i]) /\ ~IsFirstFour(order[j])) =>
                              StrLess(order[i], order[j])
               /\ {glyphSet[i] : i \in 1..Len(glyphSet)} = {GN_A, GN_space, GN_notdef, GN_B}
                     => order = <<GN_notdef, GN_space, GN_A, GN_B>>

C5_Witness ==
    /\ ComputedHere
    /\ glyphSet = <<GN_C, GN_space, GN_CR, GN_B>>
    /\ lib[GLYPH_ORDER_KEY] = <<GN_CR, GN_space, GN_B, GN_C>>

\* C6: a lib that already has "public.glyphOrder", whatever its value, is left
\* unchanged and is not rewritten; after any number of calls the stored order is
\* the one stored after the first call.
C6_NeverOverwrites ==
    /\ (calls >= 1 /\ GLYPH_ORDER_KEY \in DOMAIN lib0) => (lib = lib0 /\ libWrites = 0)
    /\ calls >= 1 => (lib = firstLib /\ libWrites <= 1)

C6_Witness ==
    /\ calls = 2
    /\ lib0 = (GLYPH_ORDER_KEY :> <<>>)
    /\ glyphSet = <<GN_A, GN_notdef>>
    /\ lib = lib0

\* ------------------------------------------------------------------ the two actions
\* The font sources a caller can attach: what getAxes and copyFont read from them.
Sources == {"Static", "Variable"}
OtherGaspRecords == <<[rangeMaxPPEM |-> 8, rangeGaspBehavior |-> <<1>>]>>
SourceData(s) ==
    IF s = "Static"
    THEN [axes |-> <<>>, glyphs |-> <<GN_A, GN_space, GN_notdef>>,
          lib |-> EmptyDict, fontInfo |-> EmptyDict]
    ELSE [axes |-> <<AxOpsz, AxWght>>, glyphs |-> <<GN_B, GN_A>>,
          lib |-> (GLYPH_ORDER_KEY :> <<GN_B, GN_A>>),
          fontInfo |-> (GASP_KEY :> OtherGaspRecords)]

\* "a.ttf", "a.TTF", "a.otf", "a", ".ttf"
Destinations == {<<97, 46, 116, 116, 102>>, <<97, 46, 84, 84, 70>>,
                 <<97, 46, 111, 116, 102>>, <<97>>, <<46, 116, 116, 102>>}
VarcDestinations == {<<97, 46, 111, 116, 102>>, <<97, 46, 116, 116, 102>>}
TempDirChoices == {None, "", "ufo-out"}

SUFFIX_TTF == <<46, 116, 116, 102>>
SUFFIX_OTF == <<46, 111, 116, 102>>
SUFFIX_UFO == <<46, 117, 102, 111>>
SUFFIX_DESIGNSPACE == <<46, 100, 101, 115, 105, 103, 110, 115, 112, 97, 99, 101>>
\* "temp." + ("designspace" if isVariable else "ufo")
TempFileName(variable) ==
    <<116, 101, 109, 112, 46>> \o (IF variable THEN Tail(SUFFIX_DESIGNSPACE)
                                   ELSE Tail(SUFFIX_UFO))
FILTER_NAME == "drop-unused-sources-and-layers"

NothingOnDisk ==
    /\ projectIn = "none"
    /\ dsDoc = NoDoc /\ glyphSet = <<>> /\ lib = EmptyDict /\ fontInfo = EmptyDict
    /\ dsDoc0 = NoDoc /\ dsWrites = 0 /\ lib0 = EmptyDict /\ libWrites = 0
    /\ calls = 0 /\ firstLib = EmptyDict

\* A CompileFontMakeAction constructed with any of the field values.
Init ==
    /\ ActionsConstructed /\ NothingOnDisk
    /\ destination \in Destinations
    /\ setOverlapSimpleFlag \in BOOLEAN
    /\ addMinimalGaspTableOpt \in BOOLEAN
    /\ ufoTempDir \in TempDirChoices
    /\ varcDestination = <<>>

\* One action of each class; the fields the connect/process lifecycle does not
\* read are at one value.
InitLifecycle ==
    /\ ActionsConstructed /\ NothingOnDisk
    /\ destination = <<97, 46, 116, 116, 102>>
    /\ setOverlapSimpleFlag = FALSE
    /\ addMinimalGaspTableOpt \in BOOLEAN
    /\ ufoTempDir \in TempDirChoices
    /\ varcDestination \in VarcDestinations

\* ---- connect (both classes): attach on entry, detach in the finally clause
FmConnect ==
    /\ pc = "idle" /\ fmDepth < MaxDepth
    /\ \E s \in Sources : fmInput' = s
    /\ fmDepth' = fmDepth + 1
    /\ UNCHANGED <<fieldVars, varcVars, procVars, fsVars, projVars, histVars>>

\* The variant whose scope exit leaves the source attached.
FmConnectExitKeepsInput ==
    /\ pc = "idle" /\ fmDepth > 0
    /\ fmDepth' = fmDepth - 1
    /\ UNCHANGED <<fmInput, fieldVars, varcVars, procVars, fsVars, projVars, histVars>>

\* The scope is left, by the body returning or by an exception passing through.
FmConnectExit ==
    /\ pc = "idle" /\ fmDepth > 0
    /\ fmInput' = None
    /\ fmDepth' = fmDepth - 1
    /\ UNCHANGED <<fieldVars, varcVars, procVars, fsVars, projVars, histVars>>

VarcConnect ==
    /\ varcDepth < MaxDepth
    /\ \E s \in Sources : varcInput' = s
    /\ varcDepth' = varcDepth + 1
    /\ UNCHANGED <<fieldVars, fmScopeVars, varcOutcome, varcBuilder, procVars, fsVars,
                   projVars, histVars>>

VarcConnectExit ==
    /\ varcDepth > 0
    /\ varcInput' = None
    /\ varcDepth' = varcDepth - 1
    /\ UNCHANGED <<fieldVars, fmScopeVars, varcOutcome, varcBuilder, procVars, fsVars,
                   projVars, histVars>>

\* ---- FontraCompileAction.process: assert, Builder(...), setup, build, save
VarcProcess ==
    /\ IF varcInput = None
       THEN /\ varcOutcome' = "AssertionError"
            /\ UNCHANGED varcBuilder
       ELSE /\ varcBuilder' = [reader |-> varcInput,
                               buildCFF2 |-> Lower(PathSuffix(varcDestination)) = SUFFIX_OTF,
                               subroutinize |-> TRUE, useExtendedGvar |-> FALSE]
            /\ \E result \in {"saved", "raised"} : varcOutcome' = result
    /\ UNCHANGED <<fieldVars, fmScopeVars, varcInput, varcDepth, procVars, fsVars,
                   projVars, histVars>>

\* ---- CompileFontMakeAction.process
\* `if self.ufoTempDir:`
TempDirPinned == ufoTempDir \notin {None, ""}

\* The variant that removes the temporary directory only on a normal return.
ProcessExitLeakOnError(outcome, stage) ==
    /\ fmOutcome' = outcome /\ failedStage' = stage /\ pc' = "idle"
    /\ IF sourcePath.dir = "tmp" /\ outcome = "returned"
       THEN /\ tmpDir' = "absent" /\ projectIn' = "none"
            /\ dsDoc' = NoDoc /\ glyphSet' = <<>> /\ lib' = EmptyDict
            /\ fontInfo' = EmptyDict
       ELSE UNCHANGED <<tmpDir, projectIn, projVars>>

\* Leaving `with tempDirContext`: TemporaryDirectory removes the directory and
\* all in it, nullcontext does nothing. The call returns, or the exception of
\* `stage` goes to the caller.
ProcessExit(outcome, stage) ==
    /\ fmOutcome' = outcome /\ failedStage' = stage /\ pc' = "idle"
    /\ IF sourcePath.dir = "tmp"
       THEN /\ tmpDir' = "absent" /\ projectIn' = "none"
            /\ dsDoc' = NoDoc /\ glyphSet' = <<>> /\ lib' = EmptyDict
            /\ fontInfo' = EmptyDict
       ELSE UNCHANGED <<tmpDir, projectIn, projVars>>

\* lines 45-73: the assertion, getAxes, the temp-dir context, the new backend
FmProcessBegin ==
    /\ pc = "idle"
    /\ IF fmInput = None
       THEN /\ fmOutcome' = "AssertionError"
            /\ stages' = <<>> /\ failedStage' = None /\ arguments' = <<>>
            /\ UNCHANGED <<pc, isVariable, continueOnError, sourcePath, dsBackendFlag,
                           fsVars>>
       ELSE /\ isVariable' = (SourceData(fmInput).axes # <<>>)
            /\ \E c \in BOOLEAN : continueOnError' = c
            /\ tmpDir' = IF TempDirPinned THEN tmpDir ELSE "exists"
            /\ sourcePath' = [dir |-> IF TempDirPinned THEN "pinned" ELSE "tmp",
                              name |-> TempFileName(isVariable')]
            /\ dsBackendFlag' = setOverlapSimpleFlag
            /\ stages' = <<>> /\ failedStage' = None /\ arguments' = <<>>
            /\ fmOutcome' = "running"
            /\ pc' = "materialize"
            /\ UNCHANGED <<projectIn, copyInfo>>
    /\ UNCHANGED <<fieldVars, fmScopeVars, varcVars, projVars, histVars>>

\* The stage that follows the copy, and the one that follows addGlyphOrder.
AfterMaterialize(variable) == IF variable THEN "addInstances" ELSE "addGlyphOrder"

\* The variant that applies the gasp table whether configured or not.
AfterGlyphOrderAlwaysGasp(opt) == "addMinimalGaspTable"

AfterGlyphOrder(opt) == IF opt THEN "addMinimalGaspTable" ELSE "compile"

\* lines 75-79: copyFont through the drop-unused-sources-and-layers filter.
\* A glyph that cannot be copied is skipped under continueOnError; a failure is
\* taken to come before anything is written.
FmMaterialize ==
    /\ pc = "materialize"
    /\ stages' = Append(stages, "materialize")
    /\ copyInfo' = [overlapSimple |-> dsBackendFlag, filter |-> FILTER_NAME]
    /\ \E result \in {"ok", "glyphError", "ioError"} :
          IF result = "ioError" \/ (result = "glyphError" /\ ~continueOnError)
          THEN ProcessExit("raised", "materialize")
          ELSE LET src == SourceData(fmInput)
               IN  /\ projectIn' = sourcePath.dir
                   /\ dsDoc' = [axes |-> src.axes, instances |-> <<>>,
                                elidedFallbackName |-> None]
                   /\ glyphSet' = IF result = "glyphError"
                                  THEN SubSeq(src.glyphs, 1, Len(src.glyphs) - 1)
                                  ELSE src.glyphs
                   /\ lib' = src.lib
                   /\ fontInfo' = src.fontInfo
                   /\ pc' = AfterMaterialize(isVariable)
                   /\ UNCHANGED <<tmpDir, fmOutcome, failedStage>>
    /\ UNCHANGED <<fieldVars, fmScopeVars, varcVars, isVariable, continueOnError,
                   sourcePath, dsBackendFlag, arguments, histVars>>

\* lines 81-82
FmAddInstances ==
    /\ pc = "addInstances"
    /\ stages' = Append(stages, "addInstances")
    /\ \E fails \in BOOLEAN :
          IF fails THEN ProcessExit("raised", "addInstances")
          ELSE /\ dsDoc' = AddInstancesDoc(dsDoc)
               /\ pc' = "addGlyphOrder"
               /\ UNCHANGED <<tmpDir, projectIn, glyphSet, lib, fontInfo, fmOutcome,
                              failedStage>>
    /\ UNCHANGED <<fieldVars, fmScopeVars, varcVars, isVariable, continueOnError,
                   sourcePath, dsBackendFlag, arguments, copyInfo, histVars>>

\* line 83
FmAddGlyphOrder ==
    /\ pc = "addGlyphOrder"
    /\ stages' = Append(stages, "addGlyphOrder")
    /\ \E fails \in BOOLEAN :
          IF fails THEN ProcessExit("raised", "addGlyphOrder")
          ELSE /\ lib' = AddGlyphOrderLib(lib, glyphSet)
               /\ pc' = AfterGlyphOrder(addMinimalGaspTableOpt)
               /\ UNCHANGED <<tmpDir, projectIn, dsDoc, glyphSet, fontInfo, fmOutcome,
                              failedStage>>
    /\ UNCHANGED <<fieldVars, fmScopeVars, varcVars, isVariable, continueOnError,
                   sourcePath, dsBackendFlag, arguments, copyInfo, histVars>>

\* lines 85-86
FmAddMinimalGaspTable ==
    /\ pc = "addMinimalGaspTable"
    /\ stages' = Append(stages, "addMinimalGaspTable")
    /\ \E fails \in BOOLEAN :
          IF fails THEN ProcessExit("raised", "addMinimalGaspTable")
          ELSE /\ fontInfo' = AddMinimalGaspTableInfo(fontInfo)
               /\ pc' = "compile"
               /\ UNCHANGED <<tmpDir, projectIn, dsDoc, glyphSet, lib, fmOutcome,
                              failedStage>>
    /\ UNCHANGED <<fieldVars, fmScopeVars, varcVars, isVariable, continueOnError,
                   sourcePath, dsBackendFlag, arguments, copyInfo, histVars>>

\* The variant that picks the flavour from the case-sensitive suffix.
OutputTypeCaseSensitive(srcPath, outputFontPath) ==
    IF PathSuffix(outputFontPath) # SUFFIX_TTF
    THEN (IF PathSuffix(srcPath.name) = SUFFIX_DESIGNSPACE THEN "variable-cff2" ELSE "otf")
    ELSE (IF PathSuffix(srcPath.name) = SUFFIX_DESIGNSPACE THEN "variable" ELSE "ttf")

\* compileFromDesignspace, lines 97-102
OutputType(srcPath, outputFontPath) ==
    LET variable == PathSuffix(srcPath.name) = SUFFIX_DESIGNSPACE
    IN  IF Lower(PathSuffix(outputFontPath)) # SUFFIX_TTF
        THEN (IF variable THEN "variable-cff2" ELSE "otf")
        ELSE (IF variable THEN "variable" ELSE "ttf")

\* lines 103-110
CompileArguments(srcPath, outputFontPath) ==
    <<IF PathSuffix(srcPath.name) = SUFFIX_UFO THEN "-u" ELSE "-m",
      srcPath, "-o", OutputType(srcPath, outputFontPath), "--output-path",
      outputFontPath>>

\* lines 88-94 and 112: fontmake_main runs and returns or raises
FmCompile ==
    /\ pc = "compile"
    /\ stages' = Append(stages, "compile")
    /\ arguments' = CompileArguments(sourcePath, destination)
    /\ \E fails \in BOOLEAN :
          IF fails THEN ProcessExit("raised", "compile")
          ELSE ProcessExit("returned", None)
    /\ UNCHANGED <<fieldVars, fmScopeVars, varcVars, isVariable, continueOnError,
                   sourcePath, dsBackendFlag, copyInfo, histVars>>

Next ==
    \/ FmConnect \/ FmConnectExit \/ FmProcessBegin \/ FmMaterialize
    \/ FmAddInstances \/ FmAddGlyphOrder \/ FmAddMinimalGaspTable \/ FmCompile

Spec == Init /\ [][Next]_vars

LifecycleNext == Next \/ VarcConnect \/ VarcConnectExit \/ VarcProcess

SpecLifecycle == InitLifecycle /\ [][LifecycleNext]_vars

\* addMinimalGaspTable(designspacePath) called directly on a project that a
\* process call left at the ufoTempDir path
CallAddMinimalGaspTable ==
    /\ pc = "idle" /\ projectIn = "pinned" /\ calls < MaxCalls
    /\ fontInfo' = AddMinimalGaspTableInfo(fontInfo)
    /\ calls' = calls + 1
    /\ UNCHANGED <<fieldVars, fmScopeVars, varcVars, procVars, fsVars, dsDoc, glyphSet,
                   lib, dsDoc0, dsWrites, lib0, libWrites, firstLib>>

GaspNext == Next \/ CallAddMinimalGaspTable

SpecGasp == Init /\ [][GaspNext]_vars

\* ------------------------------------------------------------------ claims on the actions
TtfDestinations == {<<97, 46, 116, 116, 102>>, <<97, 46, 84, 84, 70>>}
AxisCount(s) == Len(SourceData(s).axes)
FormatToken(axisCount, ttf) ==
    IF axisCount = 0 THEN (IF ttf THEN "ttf" ELSE "otf")
    ELSE (IF ttf THEN "variable" ELSE "variable-cff2")

\* C1: the output-format token passed to the compiler is otf (no axes, suffix
\* not .ttf), ttf (no axes, .ttf), variable-cff2 (axes, not .ttf) or variable
\* (axes, .ttf), the suffix compared without regard to case; the project is a
\* designspace exactly when the source declares at least one axis.
C1_FormatToken ==
    /\ [](pc # "idle" =>
            /\ (PathSuffix(sourcePath.name) = SUFFIX_DESIGNSPACE) <=> (AxisCount(fmInput) >= 1)
            /\ (PathSuffix(sourcePath.name) = SUFFIX_UFO) <=> (AxisCount(fmInput) = 0))
    /\ [][pc = "compile" =>
            /\ arguments'[4] = FormatToken(AxisCount(fmInput), destination \in TtfDestinations)
            /\ arguments'[4] \in {"otf", "ttf", "variable", "variable-cff2"}
            /\ arguments'[1] = (IF AxisCount(fmInput) >= 1 THEN "-m" ELSE "-u")]_vars

C1_Witness ==
    /\ fmOutcome = "returned"
    /\ destination = <<97, 46, 84, 84, 70>>
    /\ arguments # <<>>
    /\ arguments[4] = "variable"

\* C7: for both actions the input is an attached source only inside a connect
\* scope and is None after every scope exit; process without a source ends in
\* an AssertionError and creates no temp dir, writes no file and invokes
\* neither the compiler nor the builder.
C7_ScopedInput ==
    /\ [](fmInput # None => fmDepth > 0)
    /\ [](varcInput # None => varcDepth > 0)
    /\ [][fmDepth' < fmDepth => fmInput' = None]_vars
    /\ [][varcDepth' < varcDepth => varcInput' = None]_vars
    /\ [][(fmInput = None /\ pc = "idle") =>
            /\ UNCHANGED <<pc, tmpDir, projectIn, copyInfo, projVars>>
            /\ stages' \in {stages, <<>>} /\ arguments' \in {arguments, <<>>}
            /\ fmOutcome' \in {fmOutcome, "AssertionError"}]_vars
    /\ [][varcInput = None =>
            /\ varcBuilder' = varcBuilder
            /\ varcOutcome' \in {varcOutcome, "AssertionError"}]_vars

C7_Witness ==
    /\ fmOutcome = "AssertionError" /\ fmInput = None /\ fmDepth = 1
    /\ varcOutcome = "AssertionError" /\ varcInput = None /\ varcDepth = 0
    /\ varcBuilder # NoBuilder
    /\ projectIn = "pinned"

ExpectedStages(variable, gaspOpt) ==
    <<"materialize">> \o (IF variable THEN <<"addInstances">> ELSE <<>>)
    \o <<"addGlyphOrder">> \o (IF gaspOpt THEN <<"addMinimalGaspTable">> ELSE <<>>)
    \o <<"compile">>

\* C8: in one process call the stages run at most once each, in the order
\* materialize (through the filter, the overlap flag set before), addInstances
\* (only with axes), addGlyphOrder, addMinimalGaspTable (only if configured),
\* compiler; the compiler runs only if no earlier stage raised, and a failure
\* ends the call with the failure at the caller and no later stage run.
C8_StageOrder ==
    LET expected == ExpectedStages(isVariable, addMinimalGaspTableOpt)
    IN  /\ Len(stages) <= Len(expected)
        /\ stages = SubSeq(expected, 1, Len(stages))
        /\ pc # "idle" =>
              /\ isVariable = (AxisCount(fmInput) >= 1)
              /\ pc = expected[Len(stages) + 1]
              /\ failedStage = None /\ fmOutcome = "running"
        /\ stages # <<>> =>
              copyInfo = [overlapSimple |-> setOverlapSimpleFlag, filter |-> FILTER_NAME]
        /\ failedStage # None =>
              /\ pc = "idle" /\ fmOutcome = "raised"
              /\ stages # <<>> /\ stages[Len(stages)] = failedStage
        /\ fmOutcome = "returned" => (stages = expected /\ failedStage = None)
        /\ (pc = "idle" /\ stages # <<>> /\ stages # expected) => fmOutcome = "raised"

C8_Witness ==
    /\ fmOutcome = "returned"
    /\ setOverlapSimpleFlag
    /\ stages = <<"materialize", "addInstances", "addGlyphOrder", "addMinimalGaspTable",
                  "compile">>

\* C9: without ufoTempDir the temporary directory made by process, and the
\* project in it, are gone once process has returned or raised; with ufoTempDir
\* the project is written under that path and process never deletes it.
C9_TempDirLifetime ==
    /\ [](pc = "idle" => (tmpDir = "absent" /\ projectIn # "tmp"))
    /\ [](ufoTempDir \in {None, ""} =>
            /\ projectIn # "pinned"
            /\ pc # "idle" => tmpDir = "exists"
            /\ pc \notin {"idle", "materialize"} => projectIn = "tmp")
    /\ [](ufoTempDir \notin {None, ""} =>
            /\ tmpDir = "absent" /\ projectIn # "tmp"
            /\ pc \notin {"idle", "materialize"} => projectIn = "pinned")
    /\ [][projectIn = "pinned" => projectIn' = "pinned"]_vars

C9_Witness ==
    /\ fmOutcome = "raised" /\ failedStage = "addGlyphOrder"
    /\ ufoTempDir = None
    /\ tmpDir = "absent" /\ projectIn = "none"

\* C10: after one or more invocations of addMinimalGaspTable, from any font
\* info, the stored gasp range records are exactly the one entry
\* {rangeMaxPPEM: 65535, rangeGaspBehavior: [0, 1, 2, 3]}; within process the
\* records are modified only when addMinimalGaspTable is configured.
TheGaspEntry == <<[rangeMaxPPEM |-> 65535, rangeGaspBehavior |-> <<0, 1, 2, 3>>]>>
C10_MinimalGasp ==
    /\ []((pc = "compile" /\ addMinimalGaspTableOpt) =>
            (GASP_KEY \in DOMAIN fontInfo /\ fontInfo[GASP_KEY] = TheGaspEntry))
    /\ []((pc = "compile" /\ ~addMinimalGaspTableOpt) =>
            fontInfo = SourceData(fmInput).fontInfo)
    /\ [][calls' # calls =>
            /\ GASP_KEY \in DOMAIN fontInfo' /\ fontInfo'[GASP_KEY] = TheGaspEntry
            /\ (GASP_KEY \in DOMAIN fontInfo /\ fontInfo[GASP_KEY] = TheGaspEntry)
                  => fontInfo' = fontInfo]_vars
    /\ [][(pc \in {"addInstances", "addGlyphOrder", "compile"} /\ projectIn' # "none")
            => fontInfo' = fontInfo]_vars

C10_Witness ==
    /\ calls = 2
    /\ ~addMinimalGaspTableOpt /\ isVariable
    /\ fontInfo = (GASP_KEY :> TheGaspEntry)

====
